---- MODULE Spec2Model ----
(***************************************************************************)
(* Effective-dated minijob earnings-limit settings: the admin handlers of  *)
(* backend/server.js and the MinijobSetting helpers of backend/database.js.*)
(*                                                                         *)
(* Calendar dates (DATEONLY, 'YYYY-MM-DD' strings compared as strings) are *)
(* modelled as day numbers; the process time zone is taken to be UTC, so   *)
(* that new Date(d).toISOString().split('T')[0] gives back the day d and   *)
(* setDate(getDate() - 1) gives the day d - 1.                             *)
(* (In a zone with daylight saving the local-time setDate can land one     *)
(* hour short of UTC midnight on the day after the clocks go back; that    *)
(* case is outside this model.)                                            *)
(***************************************************************************)
EXTENDS Integers, Sequences, FiniteSets, TLC

\* ----- bounds of the model
MaxDay == 4          \* calendar days are 1..MaxDay
MaxId  == 3          \* primary keys handed out are 1..MaxId
Today == 2           \* the day new Date().toISOString().split('T')[0] gives

NULL  == -1          \* validUntil: NULL = unbegrenzt

Days       == 1..MaxDay
Ids        == 1..MaxId
Limits     == {450}
Descs      == {"limit"}
Admins     == {7}

VARIABLES store, nextId, resp, calls,
          refreshPromise, promises, refreshToken, refreshCalls

\* the state of the browser's AuthManager (the server knows nothing of it)
authVars == <<refreshPromise, promises, refreshToken, refreshCalls>>

\* the state of the server
serverVars == <<store, nextId, resp, calls>>

vars == <<store, nextId, resp, calls,
          refreshPromise, promises, refreshToken, refreshCalls>>

\* ----- helpers ------------------------------------------------------------

\* faulty variant: the day itself instead of the day before
DayBefore_SameDay(d) == d

\* dayBefore.setDate(dayBefore.getDate() - 1); toISOString().split('T')[0]
DayBefore(d) == d - 1

\* faulty variant: a row that ends on the day itself is not found
Covers_EndExclusive(r, day) ==
    /\ r.validFrom <= day
    /\ (r.validUntil = NULL \/ r.validUntil > day)

\* where: validFrom <= day AND (validUntil IS NULL OR validUntil >= day)
Covers(r, day) ==
    /\ r.validFrom <= day
    /\ (r.validUntil = NULL \/ r.validUntil >= day)

\* ORDER BY validFrom DESC LIMIT 1 over the rows in cand: any row with the
\* greatest validFrom (SQL leaves the order of ties open)
LatestOf(s, cand) ==
    {i \in cand : \A j \in cand : s[j].validFrom <= s[i].validFrom}

\* MinijobSetting.getCurrentSetting: the possible results ({} = none found)
GetCurrentSetting(s) ==
    LatestOf(s, {i \in DOMAIN s : Covers(s[i], Today)})

\* faulty variant: ORDER BY validFrom ASC in the copy of the query
CurrentSettingOfUpdate_Earliest(s) ==
    LET found == {i \in DOMAIN s :
                    /\ s[i].validFrom <= Today
                    /\ (s[i].validUntil = NULL \/ s[i].validUntil >= Today)}
    IN  {i \in found : \A j \in found : s[i].validFrom <= s[j].validFrom}

\* the findOne of updateActiveStatus, written out there a second time:
\* validFrom <= today AND (validUntil IS NULL OR validUntil >= today),
\* ORDER BY validFrom DESC (the possible rows)
CurrentSettingOfUpdate(s) ==
    LET found == {i \in DOMAIN s :
                    /\ s[i].validFrom <= Today
                    /\ (s[i].validUntil = NULL \/ s[i].validUntil >= Today)}
    IN  {i \in found : \A j \in found : s[j].validFrom <= s[i].validFrom}

\* faulty variant: the rows are not marked inactive first
UpdateActiveStatus_NoClear(s) ==
    IF CurrentSettingOfUpdate(s) = {} THEN {s}
    ELSE {[s EXCEPT ![c].isActive = TRUE] : c \in CurrentSettingOfUpdate(s)}

\* faulty variant: the caller does not run updateActiveStatus
UpdateActiveStatus_Skipped(s) == {s}

\* MinijobSetting.updateActiveStatus: the possible stores afterwards
UpdateActiveStatus(s) ==
    LET cleared == [i \in DOMAIN s |-> [s[i] EXCEPT !.isActive = FALSE]]
        cur     == CurrentSettingOfUpdate(cleared)
    IN  IF cur = {} THEN {cleared}
        ELSE {[cleared EXCEPT ![c].isActive = TRUE] : c \in cur}

\* the where clause of the overlappingSettings query of create: an OR of
\* three conditions, of which the second and third are {} when validUntil is
\* absent; Sequelize leaves an empty object out of an Op.or list, so only the
\* first condition then remains
OverlappingSettings(s, fromDate, validUntil) ==
    {i \in DOMAIN s :
        \/ /\ s[i].validFrom <= fromDate
           /\ (s[i].validUntil = NULL \/ s[i].validUntil >= fromDate)
        \/ /\ validUntil # NULL
           /\ s[i].validFrom <= validUntil
           /\ (s[i].validUntil = NULL \/ s[i].validUntil >= validUntil)
        \/ /\ validUntil # NULL
           /\ s[i].validFrom >= fromDate
           /\ s[i].validUntil # NULL
           /\ s[i].validUntil <= validUntil}

\* faulty variant: the date goes into the validFrom column
UpdateValidUntil_WrongColumn(s, i, validUntil) ==
    IF i \in DOMAIN s /\ validUntil # NULL
    THEN [s EXCEPT ![i].validFrom = validUntil]
    ELSE s

\* instance.update({ validUntil }): UPDATE ... WHERE id = the instance's id
UpdateValidUntil(s, i, validUntil) ==
    IF i \in DOMAIN s THEN [s EXCEPT ![i].validUntil = validUntil] ELSE s

\* the response of a handler (fields a handler does not send are empty)
Response(op, status, id, from, until, adjusted, conflicts, count) ==
    [op |-> op, status |-> status, id |-> id, validFrom |-> from,
     validUntil |-> until, adjusted |-> adjusted, conflicts |-> conflicts,
     adjustedCount |-> count]

NoId == 0

\* no request is being served
NoResponse == Response("none", 0, NoId, NULL, NULL, <<>>, {}, 0)

Idle == resp = NoResponse

\* res.json / res.status().json: the response leaves, the next request may come
ResponseSent ==
    /\ ~Idle
    /\ resp' = NoResponse
    /\ UNCHANGED <<store, nextId>>

\* the requests whose handlers run step by step: a handler is suspended at
\* each await, and the handlers of other requests run meanwhile
Clients == {"a", "b"}

\* the locals of a handler: pc is the storage call it awaits next, before is
\* the table as it was when the request came in (kept for the properties)
NoCall ==
    [pc |-> "idle", op |-> "none", id |-> NoId, validFrom |-> NULL,
     validUntil |-> NULL, previous |-> NoId, newValidUntil |-> NULL,
     current |-> NoId, status |-> 0, before |-> <<>>]

NoCalls == [c \in Clients |-> NoCall]

\* the callers of refreshTokens in the one browser tab
Callers == {"x", "y", "z"}

\* private refreshPromise: Promise<boolean> | null = null
NoPromise == 0

\* a caller that is not inside refreshTokens
NoRefreshCall == [pc |-> "idle", promise |-> NoPromise, result |-> FALSE]

\* a tab without tokens in which nothing calls refreshTokens
AuthIdle ==
    /\ refreshPromise = NoPromise
    /\ promises = <<>>
    /\ refreshToken = FALSE
    /\ refreshCalls = [c \in Callers |-> NoRefreshCall]

Init ==
    /\ store = <<>>
    /\ nextId = 1
    /\ resp = NoResponse
    /\ calls = NoCalls
    /\ AuthIdle

\* ----- POST /api/admin/minijob-settings -------------------------------------
\* faulty variant: an end date equal to the start date is let through
CreateDatesRejected_EqualAllowed(fromDate, validUntil) ==
    \/ fromDate < Today
    \/ (validUntil # NULL /\ validUntil < fromDate)

\* the two date validations: fromDate < today, untilDate <= fromDate
CreateDatesRejected(fromDate, validUntil) ==
    \/ fromDate < Today
    \/ (validUntil # NULL /\ validUntil <= fromDate)

\* overlappingSettings.find(s => s.validUntil === null && s.validFrom < fromDate)
PreviousUnlimitedSetting(s, overlapping, fromDate) ==
    {i \in overlapping : s[i].validUntil = NULL /\ s[i].validFrom < fromDate}

\* faulty variant: adjusts whenever some overlapping row is an unlimited
\* predecessor, without requiring it to be the only overlapping row
OverlapBranch_AnyUnlimited(s, overlapping, fromDate) ==
    IF overlapping = {} THEN "insert"
    ELSE IF PreviousUnlimitedSetting(s, overlapping, fromDate) # {}
         THEN "adjust"
         ELSE "conflict"

\* faulty variant: length >= 0 in place of length > 0, so an empty query
\* result is answered as a conflict
OverlapBranch_EmptyConflict(s, overlapping, fromDate) ==
    IF /\ Cardinality(overlapping) = 1
       /\ PreviousUnlimitedSetting(s, overlapping, fromDate) # {}
    THEN "adjust"
    ELSE "conflict"

\* the branch taken on the query's result: "insert" when nothing overlaps,
\* "adjust" for the one unlimited predecessor, "conflict" otherwise
OverlapBranch(s, overlapping, fromDate) ==
    IF overlapping = {} THEN "insert"
    ELSE IF /\ Cardinality(overlapping) = 1
            /\ PreviousUnlimitedSetting(s, overlapping, fromDate) # {}
         THEN "adjust"
         ELSE "conflict"

\* conflictingSettings of the 409 response
ConflictingSettings(s, overlapping) ==
    {[id |-> i, validFrom |-> s[i].validFrom, validUntil |-> s[i].validUntil] :
        i \in overlapping}

\* the row MinijobSetting.create inserts (isActive takes its default)
NewSetting(monthlyLimit, description, fromDate, validUntil, userId) ==
    [monthlyLimit |-> monthlyLimit, description |-> description,
     validFrom |-> fromDate, validUntil |-> validUntil,
     isActive |-> FALSE, createdBy |-> userId]

CreateSetting(monthlyLimit, description, fromDate, validUntil, userId) ==
    LET overlapping == OverlappingSettings(store, fromDate, validUntil)
        branch      == OverlapBranch(store, overlapping, fromDate)
    IN
    IF CreateDatesRejected(fromDate, validUntil)
    THEN /\ resp' = Response("create", 400, NoId, fromDate, validUntil,
                             <<>>, {}, 0)
         /\ UNCHANGED <<store, nextId>>
    ELSE IF branch = "conflict"
    THEN /\ resp' = Response("create", 409, NoId, fromDate, validUntil, <<>>,
                             ConflictingSettings(store, overlapping), 0)
         /\ UNCHANGED <<store, nextId>>
    ELSE /\ nextId <= MaxId
         /\ LET newEndDate == DayBefore(fromDate)
                previous   == IF branch = "adjust"
                              THEN PreviousUnlimitedSetting(store, overlapping,
                                                            fromDate)
                              ELSE {}
                adjustedStore ==
                    [i \in DOMAIN store |->
                        IF i \in previous
                        THEN UpdateValidUntil(store, i, newEndDate)[i]
                        ELSE store[i]]
                autoAdjusted ==
                    IF previous = {} THEN <<>>
                    ELSE <<[id |-> CHOOSE i \in previous : TRUE,
                            oldValidUntil |-> NULL,
                            newValidUntil |-> newEndDate]>>
                inserted ==
                    [i \in DOMAIN store \cup {nextId} |->
                        IF i = nextId
                        THEN NewSetting(monthlyLimit, description, fromDate,
                                        validUntil, userId)
                        ELSE adjustedStore[i]]
            IN  /\ store' \in UpdateActiveStatus(inserted)
                /\ nextId' = nextId + 1
                /\ resp' = Response("create", 201, nextId, fromDate, validUntil,
                                    autoAdjusted, {}, 0)

\* ----- PUT /api/admin/minijob-settings/:id ----------------------------------
\* faulty variant: an end date equal to the start date is let through
UpdateDatesRejected_EqualAllowed(fromDate, validUntil) ==
    validUntil # NULL /\ validUntil < fromDate

\* faulty variant: a start date before today is rejected, as create does
UpdateDatesRejected_PastRejected(fromDate, validUntil) ==
    \/ fromDate < Today
    \/ (validUntil # NULL /\ validUntil <= fromDate)

\* the one date validation of PUT: if (validUntil) untilDate <= fromDate
UpdateDatesRejected(fromDate, validUntil) ==
    validUntil # NULL /\ validUntil <= fromDate

UpdateSetting(settingId, monthlyLimit, description, fromDate, validUntil) ==
    IF settingId \notin DOMAIN store
    THEN /\ resp' = Response("update", 404, settingId, NULL, NULL,
                             <<>>, {}, 0)
         /\ UNCHANGED <<store, nextId>>
    ELSE IF UpdateDatesRejected(fromDate, validUntil)
    THEN /\ resp' = Response("update", 400, settingId, fromDate, validUntil,
                             <<>>, {}, 0)
         /\ UNCHANGED <<store, nextId>>
    ELSE /\ store' \in UpdateActiveStatus(
                [store EXCEPT ![settingId] =
                    [@ EXCEPT !.monthlyLimit = monthlyLimit,
                              !.description = description,
                              !.validFrom = fromDate,
                              !.validUntil = validUntil]])
         /\ resp' = Response("update", 200, settingId, fromDate, validUntil,
                             <<>>, {}, 0)
         /\ UNCHANGED nextId

\* ----- DELETE /api/admin/minijob-settings/:id -------------------------------
\* laterSettings: validFrom > that of the setting to delete, id # settingId
LaterSettings(s, settingId) ==
    {j \in DOMAIN s \ {settingId} : s[j].validFrom > s[settingId].validFrom}

\* faulty variant: ORDER BY validFrom ASC, the earliest row before the target
PreviousSetting_Earliest(s, settingId) ==
    LET cand == {j \in DOMAIN s \ {settingId} :
                    s[j].validFrom < s[settingId].validFrom}
    IN  {i \in cand : \A j \in cand : s[i].validFrom <= s[j].validFrom}

\* previousSetting: findOne, validFrom < that of the setting to delete,
\* id # settingId, ORDER BY validFrom DESC (the possible rows)
PreviousSetting(s, settingId) ==
    LatestOf(s, {j \in DOMAIN s \ {settingId} :
                    s[j].validFrom < s[settingId].validFrom})

\* newValidUntil of delete: the day before laterSettings[0].validFrom, else null
DeleteNewValidUntil(s, settingId) ==
    LET later == LaterSettings(s, settingId)
    IN  IF later = {} THEN NULL
        ELSE LET n == CHOOSE j \in later :
                        \A k \in later : s[j].validFrom <= s[k].validFrom
             IN  DayBefore(s[n].validFrom)

Without(s, settingId) == [i \in DOMAIN s \ {settingId} |-> s[i]]

\* faulty variant: a setting that starts today may be deleted
DeleteRejected_TodayAllowed(s, settingId) == s[settingId].validFrom < Today

\* only settings that start after today may be deleted
DeleteRejected(s, settingId) == s[settingId].validFrom <= Today

\* faulty variant: reports the adjustment only when the value changes
DeleteAdjusted_OnlyChanged(s, p, newValidUntil) ==
    IF s[p].validUntil = newValidUntil THEN <<>>
    ELSE <<[id |-> p, oldValidUntil |-> s[p].validUntil,
            newValidUntil |-> newValidUntil]>>

\* adjustedSettings of delete: one entry for previousSetting, pushed whether or
\* not the value changes
DeleteAdjusted(s, p, newValidUntil) ==
    <<[id |-> p, oldValidUntil |-> s[p].validUntil,
       newValidUntil |-> newValidUntil]>>

DeleteSetting(settingId) ==
    IF settingId \notin DOMAIN store
    THEN /\ resp' = Response("delete", 404, settingId, NULL, NULL, <<>>, {}, 0)
         /\ UNCHANGED <<store, nextId>>
    ELSE IF DeleteRejected(store, settingId)
    THEN /\ resp' = Response("delete", 400, settingId, NULL, NULL, <<>>, {}, 0)
         /\ UNCHANGED <<store, nextId>>
    ELSE LET previous      == PreviousSetting(store, settingId)
             newValidUntil == DeleteNewValidUntil(store, settingId)
             deleted       == store[settingId]
         IN  /\ IF previous = {}
                THEN /\ store' \in UpdateActiveStatus(Without(store, settingId))
                     /\ resp' = Response("delete", 200, settingId,
                                    deleted.validFrom, deleted.validUntil,
                                    <<>>, {}, 0)
                ELSE \E p \in previous :
                     /\ store' \in UpdateActiveStatus(Without(
                            UpdateValidUntil(store, p, newValidUntil),
                            settingId))
                     /\ resp' = Response("delete", 200, settingId,
                                    deleted.validFrom, deleted.validUntil,
                                    DeleteAdjusted(store, p, newValidUntil),
                                    {}, 0)
             /\ UNCHANGED nextId

\* ----- POST /api/admin/minijob-settings/recalculate-periods ------------------
RECURSIVE OrdersOf(_, _)
\* the sequences of the rows in rows that ascend by validFrom
OrdersOf(s, rows) ==
    IF rows = {} THEN {<<>>}
    ELSE UNION {{<<m>> \o o : o \in OrdersOf(s, rows \ {m})} :
                m \in {i \in rows :
                        \A j \in rows : s[i].validFrom <= s[j].validFrom}}

\* findAll ORDER BY validFrom ASC: the possible row orders (SQL leaves the
\* order of rows with equal validFrom open)
AllSettingsOrders(s) == OrdersOf(s, DOMAIN s)

\* faulty variant: ends a row on the day the next one starts
RecalcNewValidUntil_NextStart(s, allSettings, i) ==
    IF i + 1 \in DOMAIN allSettings
    THEN s[allSettings[i + 1]].validFrom
    ELSE NULL

\* newValidUntil of the loop body for index i of allSettings
RecalcNewValidUntil(s, allSettings, i) ==
    IF i + 1 \in DOMAIN allSettings
    THEN DayBefore(s[allSettings[i + 1]].validFrom)
    ELSE NULL

RECURSIVE RecalcAdjustments_All(_, _, _)
\* faulty variant: pushes an adjustment for every row
RecalcAdjustments_All(s, allSettings, i) ==
    IF i \notin DOMAIN allSettings THEN <<>>
    ELSE <<[id |-> allSettings[i],
            oldValidUntil |-> s[allSettings[i]].validUntil,
            newValidUntil |-> RecalcNewValidUntil(s, allSettings, i)]>>
         \o RecalcAdjustments_All(s, allSettings, i + 1)

RECURSIVE RecalcAdjustments(_, _, _)
\* the adjustments pushed by the loop from index i on
RecalcAdjustments(s, allSettings, i) ==
    IF i \notin DOMAIN allSettings THEN <<>>
    ELSE LET c   == allSettings[i]
             new == RecalcNewValidUntil(s, allSettings, i)
             rest == RecalcAdjustments(s, allSettings, i + 1)
         IN  IF s[c].validUntil # new
             THEN <<[id |-> c, oldValidUntil |-> s[c].validUntil,
                     newValidUntil |-> new]>> \o rest
             ELSE rest

\* the store after the loop: only rows whose validUntil differs are written
RecalcStore(s, allSettings) ==
    [c \in DOMAIN s |->
        LET i   == CHOOSE k \in DOMAIN allSettings : allSettings[k] = c
            new == RecalcNewValidUntil(s, allSettings, i)
        IN  IF s[c].validUntil # new
            THEN UpdateValidUntil(s, c, new)[c]
            ELSE s[c]]

RecalculatePeriods ==
    \E allSettings \in AllSettingsOrders(store) :
        LET adjustments == RecalcAdjustments(store, allSettings, 1)
        IN  /\ store' \in UpdateActiveStatus(RecalcStore(store, allSettings))
            /\ resp' = Response("recalculate", 200, NoId, NULL, NULL,
                                adjustments, {}, Len(adjustments))
            /\ UNCHANGED nextId

\* ----- GET /api/admin/minijob-settings ---------------------------------------
ListSettings ==
    /\ store' \in UpdateActiveStatus(store)
    /\ resp' = Response("list", 200, NoId, NULL, NULL, <<>>, {}, 0)
    /\ UNCHANGED nextId

\* ----- GET /api/admin/minijob-settings/current -------------------------------
GetCurrent ==
    /\ IF GetCurrentSetting(store) = {}
       THEN resp' = Response("current", 404, NoId, NULL, NULL, <<>>, {}, 0)
       ELSE \E c \in GetCurrentSetting(store) :
                resp' = Response("current", 200, c, store[c].validFrom,
                                 store[c].validUntil, <<>>, {}, 0)
    /\ UNCHANGED <<store, nextId>>

\* ----- initDatabase: process start on the persisted table --------------------
InitDatabase ==
    /\ store' \in UpdateActiveStatus(store)
    /\ UNCHANGED <<nextId, resp>>

Create ==
    \E l \in Limits, d \in Descs, f \in Days, u \in Days \cup {NULL}, a \in Admins :
        CreateSetting(l, d, f, u, a)

Update ==
    \E i \in Ids, l \in Limits, d \in Descs, f \in Days, u \in Days \cup {NULL} :
        UpdateSetting(i, l, d, f, u)

Delete == \E i \in Ids : DeleteSetting(i)

\* requests are served one at a time, each handler as one step
Next ==
    \/ Idle /\ Create /\ UNCHANGED <<calls, authVars>>
    \/ Idle /\ Update /\ UNCHANGED <<calls, authVars>>
    \/ Idle /\ Delete /\ UNCHANGED <<calls, authVars>>
    \/ Idle /\ RecalculatePeriods /\ UNCHANGED <<calls, authVars>>
    \/ Idle /\ ListSettings /\ UNCHANGED <<calls, authVars>>
    \/ Idle /\ GetCurrent /\ UNCHANGED <<calls, authVars>>
    \/ Idle /\ InitDatabase /\ UNCHANGED <<calls, authVars>>
    \/ ResponseSent /\ UNCHANGED <<calls, authVars>>

Spec == Init /\ [][Next]_vars

\* ----- any table the handlers may find --------------------------------------
\* A row as PUT writes it: validUntil null or after validFrom.  Creating the
\* rows open-ended on successive days from today on and then editing each one
\* reaches every table of such rows, with the flags as the last edit's
\* updateActiveStatus left them.
EditedRows ==
    {r \in [monthlyLimit : Limits, description : Descs, validFrom : Days,
            validUntil : Days \cup {NULL}, isActive : {FALSE},
            createdBy : Admins] :
        r.validUntil = NULL \/ r.validUntil > r.validFrom}

InitAny ==
    /\ \E n \in 0..MaxId :
        \E s \in [1..n -> EditedRows] : store \in UpdateActiveStatus(s)
    /\ nextId = Cardinality(DOMAIN store) + 1
    /\ resp = NoResponse
    /\ calls = NoCalls
    /\ AuthIdle

\* the timeline engine without edits, on any edited table; recalculate and
\* delete also bring in the tables whose rows end before they start
NextEngine ==
    \/ Idle /\ Create /\ UNCHANGED <<calls, authVars>>
    \/ Idle /\ Delete /\ UNCHANGED <<calls, authVars>>
    \/ Idle /\ RecalculatePeriods /\ UNCHANGED <<calls, authVars>>
    \/ ResponseSent /\ UNCHANGED <<calls, authVars>>

SpecEngine == InitAny /\ [][NextEngine]_vars

\* the client repeats recalculate on receipt of its response, with no other
\* request in between
NextRepeat ==
    \/ Idle /\ Create /\ UNCHANGED <<calls, authVars>>
    \/ Idle /\ Update /\ UNCHANGED <<calls, authVars>>
    \/ Idle /\ Delete /\ UNCHANGED <<calls, authVars>>
    \/ Idle /\ RecalculatePeriods /\ UNCHANGED <<calls, authVars>>
    \/ resp.op = "recalculate" /\ RecalculatePeriods /\ UNCHANGED <<calls, authVars>>
    \/ ResponseSent /\ UNCHANGED <<calls, authVars>>

SpecRepeat == Init /\ [][NextRepeat]_vars

\* the engine with the read routes and the start of the process
NextQuery ==
    \/ Idle /\ Create /\ UNCHANGED <<calls, authVars>>
    \/ Idle /\ Delete /\ UNCHANGED <<calls, authVars>>
    \/ Idle /\ RecalculatePeriods /\ UNCHANGED <<calls, authVars>>
    \/ Idle /\ ListSettings /\ UNCHANGED <<calls, authVars>>
    \/ Idle /\ GetCurrent /\ UNCHANGED <<calls, authVars>>
    \/ Idle /\ InitDatabase /\ UNCHANGED <<calls, authVars>>
    \/ ResponseSent /\ UNCHANGED <<calls, authVars>>

SpecQuery == InitAny /\ [][NextQuery]_vars

\* the persisted table a process start finds: edited rows, the flags as the
\* last updateActiveStatus left them on day d, today or earlier; ids up to
\* MaxId - 1 are used up, so that one more row can be created
InitRestart ==
    /\ \E n \in 0..(MaxId - 2) :
        \E s \in [1..n -> EditedRows], d \in 1..Today :
            LET found  == {i \in DOMAIN s :
                            /\ s[i].validFrom <= d
                            /\ (s[i].validUntil = NULL \/ s[i].validUntil >= d)}
                latest == {i \in found :
                            \A j \in found : s[j].validFrom <= s[i].validFrom}
            IN  IF latest = {} THEN store = s
                ELSE \E c \in latest : store = [s EXCEPT ![c].isActive = TRUE]
    /\ nextId = MaxId
    /\ resp = NoResponse
    /\ calls = NoCalls
    /\ AuthIdle

SpecRestart == InitRestart /\ [][Next]_vars

\* ----- from the empty table, without edits -----------------------------------
NextCreateDelete ==
    \/ Idle /\ Create /\ UNCHANGED <<calls, authVars>>
    \/ Idle /\ Delete /\ UNCHANGED <<calls, authVars>>
    \/ ResponseSent /\ UNCHANGED <<calls, authVars>>

SpecCreateDelete == Init /\ [][NextCreateDelete]_vars

SpecNoUpdate == Init /\ [][NextEngine]_vars

\* ----- edits and deletes of rows from earlier days ---------------------------
\* what earlier requests stored: other limits and descriptions than the
\* requests of this run carry
EarlierLimits == {400}
EarlierDescs  == {"earlier"}

\* rows that took effect today or before
HistoricalRows ==
    {r \in [monthlyLimit : EarlierLimits, description : EarlierDescs,
            validFrom : 1..Today, validUntil : Days \cup {NULL},
            isActive : {FALSE}, createdBy : Admins] :
        r.validUntil = NULL \/ r.validUntil > r.validFrom}

\* a table of up to MaxId - 1 such rows, the flags as updateActiveStatus left
\* them
InitHistorical ==
    /\ \E n \in 0..(MaxId - 1) :
        \E s \in [1..n -> HistoricalRows] : store \in UpdateActiveStatus(s)
    /\ nextId = Cardinality(DOMAIN store) + 1
    /\ resp = NoResponse
    /\ calls = NoCalls
    /\ AuthIdle

NextEdit ==
    \/ Idle /\ Update /\ UNCHANGED <<calls, authVars>>
    \/ Idle /\ Delete /\ UNCHANGED <<calls, authVars>>
    \/ ResponseSent /\ UNCHANGED <<calls, authVars>>

SpecEdit == InitHistorical /\ [][NextEdit]_vars

\* ===== the handlers step by step ============================================
\* Each await of a handler is a step of its own; between two steps of one
\* request the steps of another may run.  No handler opens a transaction or
\* takes a lock.

\* the handler of request c awaits the storage call pc
At(c, op, pc) == calls[c].op = op /\ calls[c].pc = pc

\* ----- POST, step by step ----------------------------------------------------
\* the request arrives; the date validations run before the first await
CreateReceived(c, fromDate, validUntil) ==
    /\ calls[c].pc = "idle"
    /\ calls' = [calls EXCEPT ![c] =
            [NoCall EXCEPT
                !.op = "create", !.validFrom = fromDate,
                !.validUntil = validUntil, !.before = store,
                !.pc = IF CreateDatesRejected(fromDate, validUntil)
                       THEN "done" ELSE "findOverlapping",
                !.status = IF CreateDatesRejected(fromDate, validUntil)
                           THEN 400 ELSE 0]]
    /\ UNCHANGED <<store, nextId, resp, authVars>>

\* await MinijobSetting.findAll(overlapping); the branch is taken on its result
CreateFindOverlapping(c) ==
    /\ At(c, "create", "findOverlapping")
    /\ LET fromDate    == calls[c].validFrom
           overlapping == OverlappingSettings(store, fromDate,
                                              calls[c].validUntil)
           branch      == OverlapBranch(store, overlapping, fromDate)
       IN  calls' = [calls EXCEPT ![c] =
            IF branch = "conflict"
            THEN [@ EXCEPT !.pc = "done", !.status = 409]
            ELSE IF branch = "adjust"
            THEN [@ EXCEPT !.pc = "updatePrevious",
                    !.previous = CHOOSE i \in PreviousUnlimitedSetting(
                                    store, overlapping, fromDate) : TRUE,
                    !.newValidUntil = DayBefore(fromDate)]
            ELSE [@ EXCEPT !.pc = "insert"]]
    /\ UNCHANGED <<store, nextId, resp, authVars>>

\* await previousUnlimitedSetting.update({ validUntil: newEndDate })
CreateUpdatePrevious(c) ==
    /\ At(c, "create", "updatePrevious")
    /\ store' = UpdateValidUntil(store, calls[c].previous,
                                 calls[c].newValidUntil)
    /\ calls' = [calls EXCEPT ![c].pc = "insert"]
    /\ UNCHANGED <<nextId, resp, authVars>>

\* await MinijobSetting.create(...)
CreateInsert(c) ==
    /\ At(c, "create", "insert")
    /\ nextId <= MaxId
    /\ \E l \in Limits, d \in Descs, a \in Admins :
        store' = [i \in DOMAIN store \cup {nextId} |->
                    IF i = nextId
                    THEN NewSetting(l, d, calls[c].validFrom,
                                    calls[c].validUntil, a)
                    ELSE store[i]]
    /\ nextId' = nextId + 1
    /\ calls' = [calls EXCEPT ![c].id = nextId, ![c].pc = "clearActive"]
    /\ UNCHANGED <<resp, authVars>>

\* ----- DELETE, step by step --------------------------------------------------
DeleteReceived(c, settingId) ==
    /\ calls[c].pc = "idle"
    /\ calls' = [calls EXCEPT ![c] =
            [NoCall EXCEPT !.op = "delete", !.id = settingId,
                           !.before = store, !.pc = "findByPk"]]
    /\ UNCHANGED <<store, nextId, resp, authVars>>

\* await MinijobSetting.findByPk(settingId); 404 and 400 follow without await
DeleteFindByPk(c) ==
    /\ At(c, "delete", "findByPk")
    /\ LET settingId == calls[c].id
       IN  calls' = [calls EXCEPT ![c] =
            IF settingId \notin DOMAIN store
            THEN [@ EXCEPT !.pc = "done", !.status = 404]
            ELSE IF DeleteRejected(store, settingId)
            THEN [@ EXCEPT !.pc = "done", !.status = 400]
            ELSE [@ EXCEPT !.pc = "findLater",
                           !.validFrom = store[settingId].validFrom,
                           !.validUntil = store[settingId].validUntil]]
    /\ UNCHANGED <<store, nextId, resp, authVars>>

\* await MinijobSetting.findAll(laterSettings); newValidUntil is the day
\* before laterSettings[0].validFrom, null when there is none
DeleteFindLater(c) ==
    /\ At(c, "delete", "findLater")
    /\ LET later == {j \in DOMAIN store \ {calls[c].id} :
                        store[j].validFrom > calls[c].validFrom}
           first == CHOOSE j \in later :
                        \A k \in later : store[j].validFrom <= store[k].validFrom
       IN  calls' = [calls EXCEPT
                ![c].pc = "findPrevious",
                ![c].newValidUntil = IF later = {} THEN NULL
                                     ELSE DayBefore(store[first].validFrom)]
    /\ UNCHANGED <<store, nextId, resp, authVars>>

\* await MinijobSetting.findOne(previousSetting)
DeleteFindPrevious(c) ==
    /\ At(c, "delete", "findPrevious")
    /\ LET found == LatestOf(store, {j \in DOMAIN store \ {calls[c].id} :
                                store[j].validFrom < calls[c].validFrom})
       IN  IF found = {}
           THEN calls' = [calls EXCEPT ![c].pc = "destroy"]
           ELSE \E p \in found :
                    calls' = [calls EXCEPT ![c].pc = "updatePrevious",
                                           ![c].previous = p]
    /\ UNCHANGED <<store, nextId, resp, authVars>>

\* await previousSetting.update({ validUntil: newValidUntil })
DeleteUpdatePrevious(c) ==
    /\ At(c, "delete", "updatePrevious")
    /\ store' = UpdateValidUntil(store, calls[c].previous,
                                 calls[c].newValidUntil)
    /\ calls' = [calls EXCEPT ![c].pc = "destroy"]
    /\ UNCHANGED <<nextId, resp, authVars>>

\* await settingToDelete.destroy()
DeleteDestroy(c) ==
    /\ At(c, "delete", "destroy")
    /\ store' = [i \in DOMAIN store \ {calls[c].id} |-> store[i]]
    /\ calls' = [calls EXCEPT ![c].pc = "clearActive"]
    /\ UNCHANGED <<nextId, resp, authVars>>

\* ----- updateActiveStatus, step by step --------------------------------------
\* the status a handler answers with once updateActiveStatus has returned
SuccessStatus(op) == IF op = "create" THEN 201 ELSE 200

\* await MinijobSetting.update({ isActive: false }, { where: {} })
RefreshClear(c) ==
    /\ calls[c].pc = "clearActive"
    /\ store' = [i \in DOMAIN store |-> [store[i] EXCEPT !.isActive = FALSE]]
    /\ calls' = [calls EXCEPT ![c].pc = "findCurrent"]
    /\ UNCHANGED <<nextId, resp, authVars>>

\* await MinijobSetting.findOne(currentSetting); without a row the handler
\* goes on to respond
RefreshFind(c) ==
    /\ calls[c].pc = "findCurrent"
    /\ IF CurrentSettingOfUpdate(store) = {}
       THEN calls' = [calls EXCEPT
                ![c].pc = "done", ![c].status = SuccessStatus(calls[c].op)]
       ELSE \E cur \in CurrentSettingOfUpdate(store) :
                calls' = [calls EXCEPT ![c].pc = "markActive",
                                       ![c].current = cur]
    /\ UNCHANGED <<store, nextId, resp, authVars>>

\* await currentSetting.update({ isActive: true }); then the response
RefreshMark(c) ==
    /\ calls[c].pc = "markActive"
    /\ store' = IF calls[c].current \in DOMAIN store
                THEN [store EXCEPT ![calls[c].current].isActive = TRUE]
                ELSE store
    /\ calls' = [calls EXCEPT
            ![c].pc = "done", ![c].status = SuccessStatus(calls[c].op)]
    /\ UNCHANGED <<nextId, resp, authVars>>

\* ----- two create requests at a time -----------------------------------------
\* the table the two requests find: at most MaxId - 2 edited rows
InitFew ==
    /\ \E n \in 0..(MaxId - 2) :
        \E s \in [1..n -> EditedRows] : store \in UpdateActiveStatus(s)
    /\ nextId = Cardinality(DOMAIN store) + 1
    /\ resp = NoResponse
    /\ calls = NoCalls
    /\ AuthIdle

NextConcurrent ==
    \/ \E c \in Clients, f \in Days, u \in Days \cup {NULL} :
        CreateReceived(c, f, u)
    \/ \E c \in Clients : CreateFindOverlapping(c)
    \/ \E c \in Clients : CreateUpdatePrevious(c)
    \/ \E c \in Clients : CreateInsert(c)
    \/ \E c \in Clients : RefreshClear(c)
    \/ \E c \in Clients : RefreshFind(c)
    \/ \E c \in Clients : RefreshMark(c)

SpecConcurrent == InitFew /\ [][NextConcurrent]_vars

\* ----- one request at a time, with failing storage calls ---------------------
InFlight(c) == calls[c].pc \notin {"idle", "done"}

\* the awaited storage call rejects: the catch block answers 500; what the
\* handler has written so far stays written (each call commits on its own)
StorageError(c) ==
    /\ InFlight(c)
    /\ calls' = [calls EXCEPT ![c].pc = "done", ![c].status = 500]
    /\ UNCHANGED <<store, nextId, resp, authVars>>

\* the process dies: the handlers in flight are gone without a response, the
\* table keeps the writes that were completed
Crash ==
    /\ \E c \in Clients : InFlight(c)
    /\ calls' = [c \in Clients |->
                    IF InFlight(c)
                    THEN [calls[c] EXCEPT !.pc = "done", !.status = 0]
                    ELSE calls[c]]
    /\ UNCHANGED <<store, nextId, resp, authVars>>

\* the client has its answer and may send the next request
CallReturns(c) ==
    /\ calls[c].pc = "done"
    /\ calls' = [calls EXCEPT ![c] = NoCall]
    /\ UNCHANGED <<store, nextId, resp, authVars>>

\* the one client of the sequential runs
Alone == {CHOOSE c \in Clients : TRUE}

NextFailing ==
    \/ \E c \in Alone, f \in Days, u \in Days \cup {NULL} :
        CreateReceived(c, f, u)
    \/ \E c \in Alone : CreateFindOverlapping(c)
    \/ \E c \in Alone : CreateUpdatePrevious(c)
    \/ \E c \in Alone : CreateInsert(c)
    \/ \E c \in Alone, i \in Ids : DeleteReceived(c, i)
    \/ \E c \in Alone : DeleteFindByPk(c)
    \/ \E c \in Alone : DeleteFindLater(c)
    \/ \E c \in Alone : DeleteFindPrevious(c)
    \/ \E c \in Alone : DeleteUpdatePrevious(c)
    \/ \E c \in Alone : DeleteDestroy(c)
    \/ \E c \in Alone : RefreshClear(c)
    \/ \E c \in Alone : RefreshFind(c)
    \/ \E c \in Alone : RefreshMark(c)
    \/ \E c \in Alone : StorageError(c)
    \/ Crash
    \/ \E c \in Alone : CallReturns(c)

SpecFailing == Init /\ [][NextFailing]_vars

\* ----- GET /current, step by step, next to one writing request ---------------
\* the request arrives; the query is the handler's first statement
CurrentReceived(c) ==
    /\ calls[c].pc = "idle"
    /\ calls' = [calls EXCEPT ![c] =
            [NoCall EXCEPT !.op = "current", !.before = store,
                           !.pc = "getCurrentSetting"]]
    /\ UNCHANGED <<store, nextId, resp, authVars>>

\* the create and delete requests that are between their first and their last
\* storage call while c reads
WritersInFlight(c) ==
    {w \in Clients \ {c} : InFlight(w) /\ calls[w].op \in {"create", "delete"}}

\* await MinijobSetting.getCurrentSetting(): one SELECT on the table as it is
\* at that moment; 404 without a row, else the row.  The call keeps for the
\* properties the table as it was before the writing request it ran into.
CurrentFind(c) ==
    /\ At(c, "current", "getCurrentSetting")
    /\ LET before == IF WritersInFlight(c) = {} THEN store
                     ELSE calls[CHOOSE w \in WritersInFlight(c) : TRUE].before
       IN  IF GetCurrentSetting(store) = {}
           THEN calls' = [calls EXCEPT ![c].pc = "done", ![c].status = 404,
                                       ![c].before = before]
           ELSE \E cur \in GetCurrentSetting(store) :
                    calls' = [calls EXCEPT
                        ![c].pc = "done", ![c].status = 200,
                        ![c].current = cur,
                        ![c].validFrom = store[cur].validFrom,
                        ![c].validUntil = store[cur].validUntil,
                        ![c].before = before]
    /\ UNCHANGED <<store, nextId, resp, authVars>>

\* each client sends one request: a create, a delete or a GET /current
NextReading ==
    \/ \E c \in Clients, f \in Days, u \in Days \cup {NULL} :
        CreateReceived(c, f, u)
    \/ \E c \in Clients : CreateFindOverlapping(c)
    \/ \E c \in Clients : CreateUpdatePrevious(c)
    \/ \E c \in Clients : CreateInsert(c)
    \/ \E c \in Clients, i \in Ids : DeleteReceived(c, i)
    \/ \E c \in Clients : DeleteFindByPk(c)
    \/ \E c \in Clients : DeleteFindLater(c)
    \/ \E c \in Clients : DeleteFindPrevious(c)
    \/ \E c \in Clients : DeleteUpdatePrevious(c)
    \/ \E c \in Clients : DeleteDestroy(c)
    \/ \E c \in Clients : RefreshClear(c)
    \/ \E c \in Clients : RefreshFind(c)
    \/ \E c \in Clients : RefreshMark(c)
    \/ \E c \in Clients : CurrentReceived(c)
    \/ \E c \in Clients : CurrentFind(c)

SpecReading == InitFew /\ [][NextReading]_vars

\* ----- GET list and PUT, step by step ----------------------------------------
ListReceived(c) ==
    /\ calls[c].pc = "idle"
    /\ calls' = [calls EXCEPT ![c] =
            [NoCall EXCEPT !.op = "list", !.before = store, !.pc = "findAll"]]
    /\ UNCHANGED <<store, nextId, resp, authVars>>

\* await MinijobSetting.findAll(...); updateActiveStatus comes next
ListFindAll(c) ==
    /\ At(c, "list", "findAll")
    /\ calls' = [calls EXCEPT ![c].pc = "clearActive"]
    /\ UNCHANGED <<store, nextId, resp, authVars>>

UpdateReceived(c, settingId, fromDate, validUntil) ==
    /\ calls[c].pc = "idle"
    /\ calls' = [calls EXCEPT ![c] =
            [NoCall EXCEPT !.op = "update", !.id = settingId,
                           !.validFrom = fromDate, !.validUntil = validUntil,
                           !.before = store, !.pc = "findByPk"]]
    /\ UNCHANGED <<store, nextId, resp, authVars>>

\* await MinijobSetting.findByPk(settingId); 404, then the date check
UpdateFindByPk(c) ==
    /\ At(c, "update", "findByPk")
    /\ calls' = [calls EXCEPT ![c] =
            IF calls[c].id \notin DOMAIN store
            THEN [@ EXCEPT !.pc = "done", !.status = 404]
            ELSE IF UpdateDatesRejected(calls[c].validFrom, calls[c].validUntil)
            THEN [@ EXCEPT !.pc = "done", !.status = 400]
            ELSE [@ EXCEPT !.pc = "updateSetting"]]
    /\ UNCHANGED <<store, nextId, resp, authVars>>

\* await setting.update({ monthlyLimit, description, validFrom, validUntil }):
\* UPDATE ... WHERE id = settingId
UpdateWrite(c) ==
    /\ At(c, "update", "updateSetting")
    /\ \E l \in Limits, d \in Descs :
        store' = IF calls[c].id \in DOMAIN store
                 THEN [store EXCEPT ![calls[c].id] =
                        [@ EXCEPT !.monthlyLimit = l, !.description = d,
                                  !.validFrom = calls[c].validFrom,
                                  !.validUntil = calls[c].validUntil]]
                 ELSE store
    /\ calls' = [calls EXCEPT ![c].pc = "clearActive"]
    /\ UNCHANGED <<nextId, resp, authVars>>

\* each client sends one request whose handler runs updateActiveStatus: a GET
\* list, a create or an update
NextResolving ==
    \/ \E c \in Clients : ListReceived(c)
    \/ \E c \in Clients : ListFindAll(c)
    \/ \E c \in Clients, f \in Days, u \in Days \cup {NULL} :
        CreateReceived(c, f, u)
    \/ \E c \in Clients : CreateFindOverlapping(c)
    \/ \E c \in Clients : CreateUpdatePrevious(c)
    \/ \E c \in Clients : CreateInsert(c)
    \/ \E c \in Clients, i \in Ids, f \in Days, u \in Days \cup {NULL} :
        UpdateReceived(c, i, f, u)
    \/ \E c \in Clients : UpdateFindByPk(c)
    \/ \E c \in Clients : UpdateWrite(c)
    \/ \E c \in Clients : RefreshClear(c)
    \/ \E c \in Clients : RefreshFind(c)
    \/ \E c \in Clients : RefreshMark(c)

SpecResolving == InitFew /\ [][NextResolving]_vars

\* ===== AuthManager: the client's token refresh ================================
\* One AuthManager per tab (getInstance); its code runs on one thread, so a
\* step is the code between two awaits.  localStorage is taken to work: its
\* calls do not throw.

\* refreshes started in one run
MaxRefresh == 3

\* the promise performRefresh returns: pc is the await it is suspended at
\* ("settled" once it has returned), ok is response.ok, value what it resolved to
Promise(pc, ok, value) == [pc |-> pc, ok |-> ok, value |-> value]

Settled(p) == promises[p].pc = "settled"

\* the promises whose POST /api/refresh has been sent and not yet handled
RequestsInFlight == {p \in DOMAIN promises : promises[p].pc \in {"fetch", "json"}}

\* faulty variant: the marker is not looked at
RefreshRunning_Never == FALSE

\* if (this.refreshPromise)
RefreshRunning == refreshPromise # NoPromise

\* performRefresh up to its first await: without a refresh token it returns
\* false at once, else it sends the request and awaits fetch
PerformRefresh(token) ==
    IF token THEN Promise("fetch", FALSE, FALSE)
    ELSE Promise("settled", FALSE, FALSE)

\* refreshTokens up to its await: a running refresh is returned to the caller,
\* else performRefresh is started and its promise kept in refreshPromise
RefreshTokens(c) ==
    /\ refreshCalls[c].pc = "idle"
    /\ IF RefreshRunning
       THEN /\ refreshCalls' = [refreshCalls EXCEPT ![c] =
                    [pc |-> "joined", promise |-> refreshPromise,
                     result |-> FALSE]]
            /\ UNCHANGED <<refreshPromise, promises, refreshToken>>
       ELSE /\ Len(promises) < MaxRefresh
            /\ promises' = Append(promises, PerformRefresh(refreshToken))
            /\ refreshPromise' = Len(promises) + 1
            /\ refreshCalls' = [refreshCalls EXCEPT ![c] =
                    [pc |-> "awaiting", promise |-> Len(promises) + 1,
                     result |-> FALSE]]
            /\ UNCHANGED refreshToken
    /\ UNCHANGED serverVars

\* await fetch(...): a response, ok or not, or a network error; the catch block
\* clears the stored tokens and returns false
FetchSettles(p) ==
    /\ p \in DOMAIN promises
    /\ promises[p].pc = "fetch"
    /\ \/ /\ \E ok \in BOOLEAN :
                promises' = [promises EXCEPT ![p] = Promise("json", ok, FALSE)]
          /\ UNCHANGED refreshToken
       \/ /\ promises' = [promises EXCEPT ![p] = Promise("settled", FALSE, FALSE)]
          /\ refreshToken' = FALSE
    /\ UNCHANGED <<refreshPromise, refreshCalls>>
    /\ UNCHANGED serverVars

\* await response.json(), then setTokens and true for an ok response,
\* clearAuth and false otherwise (also when the body does not parse)
JsonSettles(p) ==
    /\ p \in DOMAIN promises
    /\ promises[p].pc = "json"
    /\ \E parsed \in BOOLEAN :
        LET success == parsed /\ promises[p].ok
        IN  /\ promises' = [promises EXCEPT ![p] =
                                Promise("settled", promises[p].ok, success)]
            /\ refreshToken' = success
    /\ UNCHANGED <<refreshPromise, refreshCalls>>
    /\ UNCHANGED serverVars

\* const result = await this.refreshPromise; this.refreshPromise = null;
\* return result
RefreshResumes(c) ==
    /\ refreshCalls[c].pc = "awaiting"
    /\ Settled(refreshCalls[c].promise)
    /\ refreshPromise' = NoPromise
    /\ refreshCalls' = [refreshCalls EXCEPT
            ![c].pc = "done",
            ![c].result = promises[refreshCalls[c].promise].value]
    /\ UNCHANGED <<promises, refreshToken>>
    /\ UNCHANGED serverVars

\* the promise returned by "return this.refreshPromise" settles for its caller
JoinedResumes(c) ==
    /\ refreshCalls[c].pc = "joined"
    /\ Settled(refreshCalls[c].promise)
    /\ refreshCalls' = [refreshCalls EXCEPT
            ![c].pc = "done",
            ![c].result = promises[refreshCalls[c].promise].value]
    /\ UNCHANGED <<refreshPromise, promises, refreshToken>>
    /\ UNCHANGED serverVars

\* the caller has its result and may call again
RefreshReturns(c) ==
    /\ refreshCalls[c].pc = "done"
    /\ refreshCalls' = [refreshCalls EXCEPT ![c] = NoRefreshCall]
    /\ UNCHANGED <<refreshPromise, promises, refreshToken>>
    /\ UNCHANGED serverVars

\* a tab with or without stored tokens
InitAuth ==
    /\ store = <<>>
    /\ nextId = 1
    /\ resp = NoResponse
    /\ calls = NoCalls
    /\ refreshPromise = NoPromise
    /\ promises = <<>>
    /\ refreshToken \in BOOLEAN
    /\ refreshCalls = [c \in Callers |-> NoRefreshCall]

NextAuth ==
    \/ \E c \in Callers : RefreshTokens(c)
    \/ \E p \in 1..MaxRefresh : FetchSettles(p)
    \/ \E p \in 1..MaxRefresh : JsonSettles(p)
    \/ \E c \in Callers : RefreshResumes(c)
    \/ \E c \in Callers : JoinedResumes(c)
    \/ \E c \in Callers : RefreshReturns(c)

SpecAuth == InitAuth /\ [][NextAuth]_vars

\* ===== properties ===========================================================

\* days on which intervals are compared; an open-ended interval reaches past
\* the last day of the calendar
Horizon == 0..(MaxDay + 1)

InInterval(d, from, until) == from <= d /\ (until = NULL \/ d <= until)

\* [f1, u1] and [f2, u2] share at least one day (null = no end)
SharesDay(f1, u1, f2, u2) ==
    \E d \in Horizon : InInterval(d, f1, u1) /\ InInterval(d, f2, u2)

\* the existing rows whose interval shares a day with the proposed one
Intersecting(s, from, until) ==
    {i \in DOMAIN s : SharesDay(s[i].validFrom, s[i].validUntil, from, until)}

\* the rows a create response names: its conflicts or its adjusted predecessor
ReportedOverlap(r) ==
    {c.id : c \in r.conflicts} \cup {r.adjusted[k].id : k \in DOMAIN r.adjusted}

\* a create request whose dates pass validation
ValidCreate(from, until) == from >= Today /\ (until = NULL \/ until > from)

SameDates(s, t, i) ==
    s[i].validFrom = t[i].validFrom /\ s[i].validUntil = t[i].validUntil

\* C1: after any sequence of create, update, delete and recalculate from an
\* empty table, no two rows have intervals that share a day.
C1_NoOverlap ==
    \A i, j \in DOMAIN store :
        i # j => ~SharesDay(store[i].validFrom, store[i].validUntil,
                            store[j].validFrom, store[j].validUntil)

\* C2: for a create with valid dates, the rows the handler treats as
\* overlapping (reported as conflicts or adjusted) are exactly the rows whose
\* interval shares a day with the proposed interval.
C2_OverlapExact ==
    [][(resp'.op = "create" /\ resp'.status \in {201, 409})
        => ReportedOverlap(resp')
            = Intersecting(store, resp'.validFrom, resp'.validUntil)]_vars

\* C3: a valid create whose overlap set is exactly one open-ended row that
\* started before the new validFrom succeeds, ends that row on the day before
\* the new validFrom, inserts the requested dates and reports that one row.
C3_AutoAdjustCase(p) ==
    /\ resp'.op = "create"
    /\ ValidCreate(resp'.validFrom, resp'.validUntil)
    /\ OverlappingSettings(store, resp'.validFrom, resp'.validUntil) = {p}
    /\ store[p].validUntil = NULL
    /\ store[p].validFrom < resp'.validFrom

C4_ConflictCase ==
    LET ov == OverlappingSettings(store, resp'.validFrom, resp'.validUntil)
    IN  /\ resp'.op = "create"
        /\ ValidCreate(resp'.validFrom, resp'.validUntil)
        /\ ov # {}
        /\ ~(/\ Cardinality(ov) = 1
             /\ \A p \in ov : store[p].validUntil = NULL
                              /\ store[p].validFrom < resp'.validFrom)

C4_CreateConflict ==
    [][C4_ConflictCase =>
        /\ resp'.status = 409
        /\ resp'.conflicts =
            {[id |-> i, validFrom |-> store[i].validFrom,
              validUntil |-> store[i].validUntil] :
                i \in OverlappingSettings(store, resp'.validFrom,
                                          resp'.validUntil)}
        /\ store' = store]_vars

C4_Witness ==
    /\ resp.op = "create" /\ resp.status = 409
    /\ \E c1, c2 \in resp.conflicts :
        /\ c1.id # c2.id
        /\ c1.validUntil # NULL
        /\ c2.validUntil = NULL

\* C5: a create with validFrom before today, or with a validUntil that is not
\* after validFrom, is rejected with 400 and changes nothing; a create with
\* validFrom today and acceptable validUntil is not rejected with 400.
C5_CreateValidation ==
    [][resp'.op = "create" =>
        /\ (resp'.validFrom < Today
            \/ (resp'.validUntil # NULL /\ resp'.validUntil <= resp'.validFrom))
           => (resp'.status = 400 /\ store' = store)
        /\ (resp'.validFrom = Today
            /\ (resp'.validUntil = NULL \/ resp'.validUntil > resp'.validFrom))
           => resp'.status # 400]_vars

C5_Witness ==
    /\ resp.op = "create" /\ resp.status = 400
    /\ resp.validFrom >= Today
    /\ resp.validUntil = resp.validFrom
    /\ store # <<>>

\* C6: a valid create whose overlap set is empty succeeds, adds the new row,
\* reports no adjusted predecessor and changes no existing row's dates.
C6_CreateNoOverlap ==
    [][(/\ resp'.op = "create"
        /\ ValidCreate(resp'.validFrom, resp'.validUntil)
        /\ OverlappingSettings(store, resp'.validFrom, resp'.validUntil) = {})
        => /\ resp'.status = 201
           /\ resp'.adjusted = <<>>
           /\ resp'.id \notin DOMAIN store
           /\ DOMAIN store' = DOMAIN store \cup {resp'.id}
           /\ \A i \in DOMAIN store : SameDates(store, store', i)]_vars

C6_Witness ==
    /\ resp.op = "create" /\ resp.status = 201
    /\ resp.adjusted = <<>>
    /\ Cardinality(DOMAIN store) >= 2

\* C7: deleting an existing row whose validFrom is on or before today fails,
\* and every row keeps its validFrom, validUntil and isActive.
C7_DeleteRejected ==
    [][(/\ resp'.op = "delete"
        /\ resp'.id \in DOMAIN store
        /\ store[resp'.id].validFrom <= Today)
        => /\ resp'.status = 400
           /\ store' = store]_vars

C7_Witness ==
    /\ resp.op = "delete" /\ resp.status = 400
    /\ resp.id \in DOMAIN store
    /\ store[resp.id].validFrom = Today
    /\ \E p \in DOMAIN store : store[p].validFrom < Today

\* the rows with the greatest validFrom below that of row d, and the least
\* validFrom above it
Predecessors(s, d) ==
    {p \in DOMAIN s \ {d} :
        /\ s[p].validFrom < s[d].validFrom
        /\ \A q \in DOMAIN s \ {d} :
            s[q].validFrom < s[d].validFrom => s[q].validFrom <= s[p].validFrom}

Successors(s, d) ==
    {n \in DOMAIN s \ {d} :
        /\ s[n].validFrom > s[d].validFrom
        /\ \A q \in DOMAIN s \ {d} :
            s[q].validFrom > s[d].validFrom => s[n].validFrom <= s[q].validFrom}

DeleteDone == resp'.op = "delete" /\ resp'.status = 200

C9_DeleteReport ==
    [][DeleteDone =>
        LET d       == resp'.id
            earlier == {q \in DOMAIN store \ {d} :
                            store[q].validFrom < store[d].validFrom}
        IN  /\ DOMAIN store' = DOMAIN store \ {d}
            /\ earlier # {} =>
                /\ Len(resp'.adjusted) = 1
                /\ resp'.adjusted[1].id \in Predecessors(store, d)
                /\ resp'.adjusted[1].oldValidUntil
                    = store[resp'.adjusted[1].id].validUntil
                /\ resp'.adjusted[1].newValidUntil
                    = store'[resp'.adjusted[1].id].validUntil
            /\ (resp'.adjusted = <<>>) <=> (earlier = {})
            /\ \A i \in DOMAIN store' :
                /\ store'[i].validFrom = store[i].validFrom
                /\ (\A k \in DOMAIN resp'.adjusted : resp'.adjusted[k].id # i)
                    => store'[i].validUntil = store[i].validUntil]_vars

C9_Witness ==
    /\ resp.op = "delete" /\ resp.status = 200
    /\ Len(resp.adjusted) = 1
    /\ resp.adjusted[1].oldValidUntil = resp.adjusted[1].newValidUntil
    /\ Cardinality(DOMAIN store) = 2

\* o lists every row of s once, in ascending order of validFrom
IsAscendingOrder(s, o) ==
    /\ \A k \in DOMAIN o :
        k + 1 \in DOMAIN o => s[o[k]].validFrom <= s[o[k + 1]].validFrom
    /\ \A i \in DOMAIN s : \E k \in DOMAIN o : o[k] = i

\* every row ends the day before the next one starts, the last one never
Chained(s, o) ==
    \A k \in DOMAIN o :
        s[o[k]].validUntil =
            IF k + 1 \in DOMAIN o THEN s[o[k + 1]].validFrom - 1 ELSE NULL

C11_RecalculateIdempotent ==
    [][(resp.op = "recalculate" /\ resp'.op = "recalculate")
        => /\ resp'.adjustedCount = 0
           /\ resp'.adjusted = <<>>
           /\ store' = store]_vars

\* C12: recalculate reports exactly the rows whose validUntil it changed, each
\* with the value before and after; the count is the length of the list and
\* the number of rows whose validUntil differs; the other rows keep their
\* dates.
C12_RecalculateReport ==
    [][resp'.op = "recalculate" =>
        LET changed == {i \in DOMAIN store :
                            store'[i].validUntil # store[i].validUntil}
            listed  == {resp'.adjusted[k].id : k \in DOMAIN resp'.adjusted}
        IN  /\ DOMAIN store' = DOMAIN store
            /\ resp'.adjustedCount = Len(resp'.adjusted)
            /\ resp'.adjustedCount = Cardinality(changed)
            /\ listed = changed
            /\ \A k \in DOMAIN resp'.adjusted :
                /\ resp'.adjusted[k].oldValidUntil
                    = store[resp'.adjusted[k].id].validUntil
                /\ resp'.adjusted[k].newValidUntil
                    = store'[resp'.adjusted[k].id].validUntil
            /\ \A i \in DOMAIN store \ changed :
                [store'[i] EXCEPT !.isActive = FALSE]
                    = [store[i] EXCEPT !.isActive = FALSE]]_vars

C12_Witness ==
    /\ resp.op = "recalculate"
    /\ resp.adjustedCount = 1
    /\ Cardinality(DOMAIN store) = 3
    /\ resp.adjusted[1].oldValidUntil # NULL
    /\ resp.adjusted[1].newValidUntil # NULL

\* a correct timeline: no two rows share a day, every day from the first
\* validFrom on lies in some row, no bounded row ends before it starts, and
\* a non-empty table has exactly one open-ended row
CorrectTimeline(s) ==
    /\ \A i, j \in DOMAIN s :
        i # j => ~SharesDay(s[i].validFrom, s[i].validUntil,
                            s[j].validFrom, s[j].validUntil)
    /\ \A d \in Horizon :
        (\E i \in DOMAIN s : s[i].validFrom <= d)
            => \E i \in DOMAIN s : InInterval(d, s[i].validFrom, s[i].validUntil)
    /\ \A i \in DOMAIN s :
        s[i].validUntil # NULL => s[i].validUntil >= s[i].validFrom
    /\ DOMAIN s # {} =>
        Cardinality({i \in DOMAIN s : s[i].validUntil = NULL}) = 1

\* C13: after recalculate on any table that create, update and delete can
\* produce, the table is a correct timeline.
C13_RecalculateRepairs ==
    [][resp'.op = "recalculate" => CorrectTimeline(store')]_vars

\* C14: every stored row with a validUntil has it strictly after its
\* validFrom.
C14_DateOrder ==
    \A i \in DOMAIN store :
        store[i].validUntil # NULL => store[i].validUntil > store[i].validFrom

\* the rows in effect today, those of them that start last, the flagged rows
CoversToday(s) ==
    {i \in DOMAIN s :
        /\ s[i].validFrom <= Today
        /\ (s[i].validUntil = NULL \/ s[i].validUntil >= Today)}

LatestCovering(s) ==
    {i \in CoversToday(s) :
        \A j \in CoversToday(s) : s[j].validFrom <= s[i].validFrom}

Flagged(s) == {i \in DOMAIN s : s[i].isActive}

\* a step of a handler that ran updateActiveStatus: a successful create,
\* update, delete or recalculate, the list route, or the start of the process
\* (which sends no response)
MutationDone ==
    \/ resp'.op = "create" /\ resp'.status = 201
    \/ resp'.op \in {"update", "delete", "recalculate"} /\ resp'.status = 200

StartupDone == Idle /\ resp' = resp /\ store' # store

RefreshDone == MutationDone \/ resp'.op = "list" \/ StartupDone

\* C15: after every refresh at most one row is flagged isActive, a flagged
\* row is in effect today and no row in effect today starts later, and no row
\* is flagged when none is in effect today.
C15_SingleActive ==
    [][RefreshDone =>
        /\ Cardinality(Flagged(store')) <= 1
        /\ \A a \in Flagged(store') :
            /\ store'[a].validFrom <= Today
            /\ (store'[a].validUntil = NULL \/ store'[a].validUntil >= Today)
            /\ \A j \in CoversToday(store') :
                store'[j].validFrom <= store'[a].validFrom
        /\ CoversToday(store') = {} => Flagged(store') = {}]_vars

C15_Witness ==
    /\ resp.op = "update" /\ resp.status = 200
    /\ Cardinality(CoversToday(store)) = 2
    /\ Cardinality(LatestCovering(store)) = 1
    /\ Flagged(store) = LatestCovering(store)

\* C16: the current route answers with one row or with 404; a row it returns
\* is in effect today and no other row in effect today starts later; it
\* answers 404 exactly when no row is in effect today.
C16_SingleCurrent ==
    [][resp'.op = "current" =>
        /\ resp'.status \in {200, 404}
        /\ (resp'.status = 404) <=> (CoversToday(store) = {})
        /\ resp'.status = 200 =>
            /\ resp'.id \in DOMAIN store
            /\ resp'.validFrom = store[resp'.id].validFrom
            /\ resp'.validUntil = store[resp'.id].validUntil
            /\ resp'.validFrom <= Today
            /\ (resp'.validUntil = NULL \/ resp'.validUntil >= Today)
            /\ \A j \in CoversToday(store) \ {resp'.id} :
                ~(store[j].validFrom > resp'.validFrom)]_vars

C16_Witness ==
    /\ resp.op = "current" /\ resp.status = 200
    /\ resp.validUntil = Today
    /\ \E j \in CoversToday(store) : store[j].validFrom < resp.validFrom

\* no two rows in effect today start on the same day
DistinctCovering(s) ==
    \A i, j \in CoversToday(s) : i # j => s[i].validFrom # s[j].validFrom

\* s with the isActive flags f
WithFlags(s, f) == [i \in DOMAIN s |-> [s[i] EXCEPT !.isActive = f[i]]]

\* C17: on a table whose rows in effect today start on distinct days, the row
\* the current route returns is the row the last refresh flagged, and it
\* answers 404 exactly when no row is flagged; whatever the stored flags are,
\* getCurrentSetting finds the same rows.
C17_ResolverAgrees ==
    [][resp'.op = "current" =>
        /\ \A f \in [DOMAIN store -> BOOLEAN] :
            /\ GetCurrentSetting(WithFlags(store, f)) = GetCurrentSetting(store)
            /\ resp'.status = 200
                => resp'.id \in GetCurrentSetting(WithFlags(store, f))
        /\ DistinctCovering(store) =>
            /\ resp'.status = 200 => Flagged(store) = {resp'.id}
            /\ (resp'.status = 404) <=> (Flagged(store) = {})
            /\ \A t \in UpdateActiveStatus(store) :
                Flagged(t) = IF resp'.status = 200 THEN {resp'.id} ELSE {}]_vars

C17_Witness ==
    /\ resp.op = "current" /\ resp.status = 200
    /\ resp.validUntil = NULL
    /\ Cardinality(CoversToday(store)) = 2
    /\ DistinctCovering(store)
    /\ Flagged(store) = {resp.id}

\* the flags are those of the timeline: the one flagged row is a latest row in
\* effect today, and none is flagged when none is in effect
FlagsMatch(s) ==
    IF CoversToday(s) = {} THEN Flagged(s) = {}
    ELSE \E c \in LatestCovering(s) : Flagged(s) = {c}

\* C18: when a successful create, update, delete or recalculate responds, and
\* when the start of the process has run, the isActive flags are those of the
\* final validFrom and validUntil values.
C18_ResolverRuns ==
    [][(MutationDone \/ StartupDone) => FlagsMatch(store')]_vars

C18_Witness ==
    /\ resp.op = "create" /\ resp.status = 201
    /\ Len(resp.adjusted) = 1
    /\ resp.validFrom = Today
    /\ Flagged(store) = {resp.id}
    /\ ~store[resp.adjusted[1].id].isActive

\* requests a and b were in flight together: each came in before the other's
\* row was inserted
Overlapped(a, b) ==
    /\ calls[a].id \notin DOMAIN calls[b].before
    /\ calls[b].id \notin DOMAIN calls[a].before

Created(c) ==
    calls[c].op = "create" /\ calls[c].pc = "done" /\ calls[c].status = 201

\* C19: two create requests that are in flight together and whose intervals
\* share a day do not both succeed.
C19_WritersExcluded ==
    \A a, b \in Clients :
        (a # b /\ Created(a) /\ Created(b) /\ Overlapped(a, b))
            => ~SharesDay(calls[a].validFrom, calls[a].validUntil,
                          calls[b].validFrom, calls[b].validUntil)

\* the validFrom and validUntil of every row
Timeline(s) ==
    [i \in DOMAIN s |->
        [validFrom |-> s[i].validFrom, validUntil |-> s[i].validUntil]]

\* C20: when a create or delete has written its predecessor adjustment and
\* then fails before the insert or the removal, every row has the validFrom
\* and validUntil it had when the request came in.
C20_AtomicAdjustment ==
    [][\A c \in Clients :
        (/\ calls[c].pc \in {"insert", "destroy"}
         /\ calls[c].previous # NoId
         /\ calls'[c].pc = "done"
         /\ calls'[c].status \in {500, 0})
            => Timeline(store') = Timeline(calls[c].before)]_vars

\* C22: an update of an id that is not in the table answers 404, an update
\* whose validUntil is present and not after validFrom answers 400, and in
\* both cases no row changes.
C22_UpdateErrors ==
    [][resp'.op = "update" =>
        /\ resp'.id \notin DOMAIN store
            => (resp'.status = 404 /\ store' = store)
        /\ (/\ resp'.id \in DOMAIN store
            /\ resp'.validUntil # NULL
            /\ resp'.validUntil <= resp'.validFrom)
            => (resp'.status = 400 /\ store' = store)
        /\ resp'.status \in {400, 404} => store' = store]_vars

C22_Witness ==
    /\ resp.op = "update" /\ resp.status = 400
    /\ resp.validUntil = resp.validFrom
    /\ resp.id \in DOMAIN store
    /\ store[resp.id].validFrom # resp.validFrom

\* C23: an update of an existing row with validUntil null or after validFrom
\* succeeds whatever the other rows and whether validFrom is before, on or
\* after today; the row keeps its id and takes the given monthlyLimit,
\* description, validFrom and validUntil; the set of rows and every other
\* row's validFrom and validUntil stay.
C23_UpdateLocal ==
    [][(/\ resp'.op = "update"
        /\ resp'.id \in DOMAIN store
        /\ (resp'.validUntil = NULL \/ resp'.validUntil > resp'.validFrom))
        => /\ resp'.status = 200
           /\ DOMAIN store' = DOMAIN store
           /\ store'[resp'.id].validFrom = resp'.validFrom
           /\ store'[resp'.id].validUntil = resp'.validUntil
           /\ store'[resp'.id].monthlyLimit \in Limits
           /\ store'[resp'.id].description \in Descs
           /\ store'[resp'.id].createdBy = store[resp'.id].createdBy
           /\ \A i \in DOMAIN store \ {resp'.id} :
                [store'[i] EXCEPT !.isActive = FALSE]
                    = [store[i] EXCEPT !.isActive = FALSE]]_vars

C23_Witness ==
    /\ resp.op = "update" /\ resp.status = 200
    /\ resp.validFrom < Today
    /\ resp.validUntil = NULL
    /\ store[resp.id].monthlyLimit \in Limits
    /\ \E j \in DOMAIN store \ {resp.id} :
        /\ store[j].monthlyLimit \in EarlierLimits
        /\ SharesDay(store[j].validFrom, store[j].validUntil,
                     resp.validFrom, resp.validUntil)

\* C27: a row whose validFrom is today or earlier stays in the table under
\* any sequence of updates and deletes (here every row the run starts with is
\* such a row, and no row is added).
C27_HistoricalKept ==
    \A i \in 1..(nextId - 1) : i \in DOMAIN store

\* C24: after any sequence of creates and deletes from the empty table the
\* rows, in ascending order of validFrom, each end the day before the next
\* starts, and the last one is open-ended.
C24_Gapless ==
    \E o \in [1..Cardinality(DOMAIN store) -> DOMAIN store] :
        IsAscendingOrder(store, o) /\ Chained(store, o)

\* C25: after any sequence of create, delete and recalculate from the empty
\* table, no row's interval shares a day with another row's.
C25_EngineNoOverlap ==
    \A i \in DOMAIN store :
        Intersecting(store, store[i].validFrom, store[i].validUntil)
            \subseteq {i}

NoOverlap(s) ==
    \A i, j \in DOMAIN s :
        i # j => ~SharesDay(s[i].validFrom, s[i].validUntil,
                            s[j].validFrom, s[j].validUntil)

DistinctValidFrom(s) ==
    \A i, j \in DOMAIN s : i # j => s[i].validFrom # s[j].validFrom

\* C26: a successful delete on a table of pairwise non-overlapping rows with
\* pairwise distinct validFrom leaves the rows pairwise non-overlapping, and
\* the adjusted predecessor ends never or after it starts.
C26_DeleteKeepsNoOverlap ==
    [][(DeleteDone /\ NoOverlap(store) /\ DistinctValidFrom(store))
        => /\ NoOverlap(store')
           /\ \A k \in DOMAIN resp'.adjusted :
                LET p == resp'.adjusted[k].id
                IN  \/ store'[p].validUntil = NULL
                    \/ store'[p].validUntil > store'[p].validFrom]_vars

\* every field of row i but validUntil and isActive is as before
OnlyValidUntil(s, t, i) ==
    /\ i \in DOMAIN t
    /\ [t[i] EXCEPT !.validUntil = NULL, !.isActive = FALSE]
        = [s[i] EXCEPT !.validUntil = NULL, !.isActive = FALSE]

\* C29: a successful create, delete or recalculate leaves every row other
\* than its target in the table, with its validFrom, monthlyLimit,
\* description and createdBy; create adds only its new row, delete removes
\* only its target, recalculate adds and removes none.
C29_AdjustOnlyValidUntil ==
    [][/\ (resp'.op = "create" /\ resp'.status = 201) =>
            /\ DOMAIN store' = DOMAIN store \cup {resp'.id}
            /\ \A i \in DOMAIN store : OnlyValidUntil(store, store', i)
       /\ DeleteDone =>
            /\ DOMAIN store' = DOMAIN store \ {resp'.id}
            /\ \A i \in DOMAIN store \ {resp'.id} :
                OnlyValidUntil(store, store', i)
       /\ resp'.op = "recalculate" =>
            /\ DOMAIN store' = DOMAIN store
            /\ \A i \in DOMAIN store : OnlyValidUntil(store, store', i)]_vars

C29_Witness ==
    /\ resp.op = "recalculate"
    /\ resp.adjustedCount = 2
    /\ \E k \in DOMAIN resp.adjusted :
        /\ resp.adjusted[k].newValidUntil # NULL
        /\ store[resp.adjusted[k].id].validUntil
            = resp.adjusted[k].newValidUntil
        /\ store[resp.adjusted[k].id].validFrom
            > resp.adjusted[k].newValidUntil

\* what GET /current answers on table s: none, or a row with its dates
CurrentAnswers(s) ==
    IF GetCurrentSetting(s) = {}
    THEN {[id |-> NoId, validFrom |-> NULL, validUntil |-> NULL]}
    ELSE {[id |-> i, validFrom |-> s[i].validFrom,
           validUntil |-> s[i].validUntil] : i \in GetCurrentSetting(s)}

\* a GET /current has its answer and no other request is under way
ReadSettled(c) ==
    /\ calls[c].op = "current"
    /\ calls[c].pc = "done"
    /\ \A w \in Clients \ {c} : ~InFlight(w)

\* C21: a GET /current that runs while a create or delete is under way answers
\* what it would answer on the table before that request or on the table after
\* it; in particular it does not answer "none" when both tables have a row
\* that covers today.
C21_ConsistentRead ==
    \A c \in Clients :
        ReadSettled(c) =>
            [id |-> calls[c].current, validFrom |-> calls[c].validFrom,
             validUntil |-> calls[c].validUntil]
                \in CurrentAnswers(calls[c].before) \cup CurrentAnswers(store)

\* C28: while two requests run updateActiveStatus with their storage calls
\* interleaved, a create or update writing in between, the table never holds
\* two rows with isActive = true.
C28_SingleActiveInterleaved ==
    Cardinality({i \in DOMAIN store : store[i].isActive}) <= 1

\* caller c enters refreshTokens in this step
Arrives(c) == refreshCalls[c].pc = "idle" /\ refreshCalls'[c].pc # "idle"

\* C30: at most one POST /api/refresh is under way at any time; a caller that
\* enters refreshTokens while one is under way starts none and gets the result
\* of that one; a promise kept in refreshPromise has its starter still waiting
\* to clear it, the starter clears it when it resumes, and a caller that finds
\* it cleared starts a new refresh.
C30_SingleFlight ==
    [][/\ Cardinality(RequestsInFlight') <= 1
       /\ \A c \in Callers :
            /\ (Arrives(c) /\ RequestsInFlight # {}) =>
                    /\ promises' = promises
                    /\ refreshCalls'[c].promise \in RequestsInFlight
            /\ (Arrives(c) /\ refreshPromise = NoPromise) =>
                    /\ Len(promises') = Len(promises) + 1
                    /\ refreshCalls'[c].promise = Len(promises')
                    /\ (refreshToken => RequestsInFlight' = {Len(promises')})
            /\ refreshCalls'[c].pc = "done" =>
                    /\ promises'[refreshCalls'[c].promise].pc = "settled"
                    /\ refreshCalls'[c].result
                        = promises'[refreshCalls'[c].promise].value
            /\ (refreshCalls[c].pc = "awaiting" /\ refreshCalls'[c].pc = "done")
                    => refreshPromise' = NoPromise
       /\ refreshPromise' # NoPromise =>
            \E c \in Callers : /\ refreshCalls'[c].pc = "awaiting"
                               /\ refreshCalls'[c].promise = refreshPromise'
      ]_vars

\* two callers were served by the first refresh, which succeeded, and a later
\* call has started a second one
C30_Witness ==
    /\ Len(promises) = 2
    /\ promises[1].value
    /\ RequestsInFlight = {2}
    /\ \E c, d \in Callers :
        /\ c # d
        /\ refreshCalls[c].pc = "done" /\ refreshCalls[c].promise = 1
        /\ refreshCalls[d].pc = "done" /\ refreshCalls[d].promise = 1
====
